---- MODULE Spec2Model ----
(***************************************************************************)
(* Model of server.js: the GET /user/:username endpoint, its two cached     *)
(* fetch paths (fetchUserData, fetchExtraStats) and the calendar normalizer *)
(* (parseAndFilterCalendar).                                                *)
(*                                                                         *)
(* Representation                                                          *)
(*  - A JavaScript Date is a record [day, ms]: whole days since 1970-01-01  *)
(*    UTC and the milliseconds within that day (the time value, split so    *)
(*    that it fits machine integers).                                       *)
(*  - A date-only ISO string 'yyyy-mm-dd' is a record [y, m, d].            *)
(*  - A string built by a template literal is the sequence of its pieces;   *)
(*    a username is the sequence of the pieces between its ':' and '-'      *)
(*    separators, so two keys are equal exactly when their texts are.       *)
(***************************************************************************)
EXTENDS Integers, Sequences, FiniteSets, TLC

(***************************************************************************)
(* Program constants                                                        *)
(***************************************************************************)
MsPerDay == 86400000
SecPerDay == 86400
MsPerSec == 1000
MsPerMin == 60000
TTL == 3600

(***************************************************************************)
(* ECMAScript Date arithmetic (proleptic Gregorian calendar)                *)
(***************************************************************************)
\* Day number of the civil date y-m-d; d may lie outside the month (MakeDay).
DaysFromCivil(y, m, d) ==
  LET yy  == IF m <= 2 THEN y - 1 ELSE y
      era == yy \div 400
      yoe == yy - era * 400
      mp  == IF m > 2 THEN m - 3 ELSE m + 9
      doy == (153 * mp + 2) \div 5 + d - 1
      doe == yoe * 365 + yoe \div 4 - yoe \div 100 + doy
  IN  era * 146097 + doe - 719468

\* Civil date of a day number (YearFromTime, MonthFromTime, DateFromTime).
CivilFromDays(z) ==
  LET zz  == z + 719468
      era == zz \div 146097
      doe == zz - era * 146097
      yoe == (doe - doe \div 1460 + doe \div 36524 - doe \div 146096) \div 365
      doy == doe - (365 * yoe + yoe \div 4 - yoe \div 100)
      mp  == (5 * doy + 2) \div 153
      d   == doy - (153 * mp + 2) \div 5 + 1
      m   == IF mp < 10 THEN mp + 3 ELSE mp - 9
      y   == yoe + era * 400
  IN  [y |-> IF m <= 2 THEN y + 1 ELSE y, m |-> m, d |-> d]

\* A time value normalised so that 0 <= ms < MsPerDay.
MakeDate(day, ms) ==
  [day |-> day + (ms \div MsPerDay), ms |-> ms % MsPerDay]

\* a - b of two Dates has this sign (the comparator of sort, and >=).
DateCompare(a, b) ==
  IF a.day # b.day THEN (IF a.day < b.day THEN -1 ELSE 1)
  ELSE IF a.ms # b.ms THEN (IF a.ms < b.ms THEN -1 ELSE 1)
  ELSE 0

DateGE(a, b) == DateCompare(a, b) >= 0

\* Local time of a Date in a zone tz minutes east of UTC.
LocalTime(t, tz) == MakeDate(t.day, t.ms + tz * MsPerMin)

\* UTC time of a local time.
UTCTime(l, tz) == MakeDate(l.day, l.ms - tz * MsPerMin)

\* Date.prototype.getFullYear
GetFullYear(t, tz) == CivilFromDays(LocalTime(t, tz).day).y

\* Date.prototype.setFullYear(year): month, date and time of day are kept, and
\* a date that does not exist in the new year rolls over into the next month.
SetFullYear(t, tz, year) ==
  LET l == LocalTime(t, tz)
      c == CivilFromDays(l.day)
  IN  UTCTime([day |-> DaysFromCivil(year, c.m, c.d), ms |-> l.ms], tz)

\* Date.prototype.setDate(date): year, month and time of day are kept.
SetDate(t, tz, date) ==
  LET l == LocalTime(t, tz)
      c == CivilFromDays(l.day)
  IN  UTCTime([day |-> DaysFromCivil(c.y, c.m, date), ms |-> l.ms], tz)

\* new Date(parseInt(timestamp)): the seconds taken for milliseconds.
DateFromTimestampUnscaled(timestamp) ==
  [day |-> timestamp \div MsPerDay, ms |-> timestamp % MsPerDay]

\* new Date(parseInt(timestamp) * 1000)
DateFromTimestamp(timestamp) ==
  [day |-> timestamp \div SecPerDay, ms |-> (timestamp % SecPerDay) * MsPerSec]

\* date.toISOString().split('T')[0]
ISODate(t) == CivilFromDays(t.day)

\* new Date('yyyy-mm-dd'): midnight UTC of that date.
ParseISODate(date) == [day |-> DaysFromCivil(date.y, date.m, date.d), ms |-> 0]

(***************************************************************************)
(* Calendar Normalizer                                                      *)
(***************************************************************************)
\* A submissionCalendar payload is the text of a JSON object from unix
\* timestamps (seconds) to counts, [kind |-> "json", map |-> f], or text that
\* is no JSON at all, [kind |-> "malformed"].
EmptyCalendarText == [kind |-> "json", map |-> <<>>]
MalformedText == [kind |-> "malformed"]

\* JSON.parse(submissionCalendar) throws a SyntaxError.
JSONParseThrows(submissionCalendar) == submissionCalendar.kind # "json"

SetMin(S) == CHOOSE x \in S : \A y \in S : x <= y

\* Object.entries(parsed): integer-like keys are listed in ascending numeric
\* order.
RECURSIVE ObjectEntries(_)
ObjectEntries(parsed) ==
  IF DOMAIN parsed = {} THEN <<>>
  ELSE LET k == SetMin(DOMAIN parsed)
       IN  <<[timestamp |-> k, count |-> parsed[k]]>>
             \o ObjectEntries([x \in (DOMAIN parsed) \ {k} |-> parsed[x]])

\* .map(([timestamp, count]) => ({date: <ISO date of timestamp>, count}))
MapEntries(entries) ==
  [i \in 1..Len(entries) |->
     [date  |-> ISODate(DateFromTimestamp(entries[i].timestamp)),
      count |-> entries[i].count]]

\* No filter at all.
FilterEntriesAll(entries, fromDate) == entries

\* .filter(entry => new Date(entry.date) >= fromDate)
RECURSIVE FilterEntries(_, _)
FilterEntries(entries, fromDate) ==
  IF entries = <<>> THEN <<>>
  ELSE LET rest == FilterEntries(Tail(entries), fromDate)
       IN  IF DateGE(ParseISODate(Head(entries).date), fromDate)
           THEN <<Head(entries)>> \o rest
           ELSE rest

\* The comparator with its operands swapped: new Date(b.date) - new Date(a.date).
CompareEntriesSwapped(a, b) ==
  DateCompare(ParseISODate(b.date), ParseISODate(a.date))

\* The comparator (a, b) => new Date(a.date) - new Date(b.date), by its sign.
CompareEntries(a, b) == DateCompare(ParseISODate(a.date), ParseISODate(b.date))

\* e placed into the sorted sequence s behind every entry that does not
\* compare greater than it.
RECURSIVE InsertEntry(_, _)
InsertEntry(e, s) ==
  IF s = <<>> THEN <<e>>
  ELSE IF CompareEntries(Head(s), e) > 0 THEN <<e>> \o s
  ELSE <<Head(s)>> \o InsertEntry(e, Tail(s))

\* Array.prototype.sort with that comparator (a stable sort).
RECURSIVE SortEntries(_)
SortEntries(entries) ==
  IF entries = <<>> THEN <<>>
  ELSE InsertEntry(entries[Len(entries)],
                   SortEntries(SubSeq(entries, 1, Len(entries) - 1)))

\* parseAndFilterCalendar of a payload that parses.
parseAndFilterCalendar(submissionCalendar, fromDate) ==
  SortEntries(FilterEntries(MapEntries(ObjectEntries(submissionCalendar.map)),
                            fromDate))

(***************************************************************************)
(* fetchExtraStats: the rolling window and the merged calendar              *)
(***************************************************************************)
\* fromDate: toDate, one year back, on the first of the month.
RollingFromDate(toDate, tz) ==
  SetDate(SetFullYear(toDate, tz, GetFullYear(toDate, tz) - 1), tz, 1)

\* The two halves in the other order: [...parsed2, ...parsed1].
CombinedCalendarSwapped(calRaw1, calRaw2, fromDate) ==
  parseAndFilterCalendar(calRaw2, fromDate)
    \o parseAndFilterCalendar(calRaw1, fromDate)

\* [...parsed1, ...parsed2]
CombinedCalendar(calRaw1, calRaw2, fromDate) ==
  parseAndFilterCalendar(calRaw1, fromDate)
    \o parseAndFilterCalendar(calRaw2, fromDate)

(***************************************************************************)
(* Bounds and the environment                                               *)
(***************************************************************************)
MaxReqs == 2
MaxCalLen == 2

Reqs == 1..MaxReqs

\* Time zones of the server process, in minutes east of UTC.
TZOffsets == {0, 330}

\* Instants at which the endpoint is exercised: 2024-06-30T23:30Z,
\* 2024-07-01T00:10Z (40 minutes later, in the next month) and
\* 2024-07-01T02:00Z (more than one TTL later).
Times ==
  { [day |-> DaysFromCivil(2024, 6, 30), ms |-> 84600000],
    [day |-> DaysFromCivil(2024, 7, 1),  ms |-> 600000],
    [day |-> DaysFromCivil(2024, 7, 1),  ms |-> 7200000] }

\* The process starts at the earliest of them.
StartTime == CHOOSE t \in Times : \A u \in Times : DateCompare(t, u) <= 0

\* Usernames (path segments): "alice" and "rolling:alice:2023-2024".
Alice == <<"alice">>
Rolling == <<"rolling", ":", "alice", ":", "2023", "-", "2024">>
Users == {Alice, Rolling}

\* The usernames for which upstream has a matchedUser record.
ValidUsers == {Alice}

None == [kind |-> "none"]

\* Upstream answers to baseQuery: the request fails (transport or HTTP
\* error), the body has no data, or the body has data with or without a
\* matchedUser.
BaseResponses(username) ==
  { [kind |-> "error"], [kind |-> "nodata"] }
    \cup (IF username \in ValidUsers
          THEN { [kind |-> "data", data |-> [matchedUser |-> [kind |-> "user", username |-> username]]] }
          ELSE { [kind |-> "data", data |-> [matchedUser |-> None]] })

\* Upstream answers to languageStatsQuery.
LanguageResponses(username) ==
  { [kind |-> "error"] }
    \cup (IF username \in ValidUsers
          THEN { [kind |-> "data",
                  languageProblemCount |->
                    << [languageName |-> "Python", problemsSolved |-> 3] >>] }
          ELSE { [kind |-> "nomatch"] })

\* The submission calendars upstream holds, by year: keys for 2023-05-20,
\* 2023-06-10 and 2023-07-05, and for 2024-01-01 (midnight UTC, in seconds).
CalendarOf(year) ==
  IF year = 2023 THEN (1684540800 :> 3) @@ (1686355200 :> 1) @@ (1688515200 :> 2)
  ELSE IF year = 2024 THEN (1704067200 :> 4)
  ELSE <<>>

\* Upstream answers to calendarQuery for a year.
CalendarResponses(username, year) ==
  { [kind |-> "error"] }
    \cup (IF username \in ValidUsers
          THEN { [kind |-> "data",
                  submissionCalendar |-> [kind |-> "json", map |-> CalendarOf(year)]],
                 [kind |-> "data", submissionCalendar |-> MalformedText] }
          ELSE { [kind |-> "nomatch"] })

(***************************************************************************)
(* State                                                                    *)
(***************************************************************************)
VARIABLES
  now,    \* the wall clock
  tz,     \* the time zone of the process
  cache,  \* the key-value store: key -> [text, at, expires, by, fn]
  queue,  \* the commands sent to the store and not yet replied to, oldest first
  req,    \* req[r]: the username of request r, <<>> before it arrives
  ud,     \* ud[r]: the fetchUserData call of request r
  ex,     \* ex[r]: the fetchExtraStats call of request r
  resp,   \* resp[r]: the response sent for request r, None before
  cal     \* the normalizer exercised on its own

vars == <<now, tz, cache, queue, req, ud, ex, resp, cal>>

(***************************************************************************)
(* Cache client, JSON and cache keys                                        *)
(***************************************************************************)
\* JSON.stringify and JSON.parse of a value built from JSON data.
JSONStringify(value) == [kind |-> "json", value |-> value]
JSONParse(text) == text.value

\* The key without the username ('user:${username}' in plain quotes would
\* not interpolate; here the name is simply left out).
UserCacheKeyShared(username) == <<"user", ":">>

\* `user:${username}`
UserCacheKey(username) == <<"user", ":">> \o username

\* `user:rolling:${username}:${lastYear}-${thisYear}`
RollingCacheKey(username, lastYear, thisYear) ==
  <<"user", ":", "rolling", ":">> \o username
    \o <<":", ToString(lastYear), "-", ToString(thisYear)>>

\* A store whose entries never expire (a set without EX).
LiveForever(c, key, t) == key \in DOMAIN c

\* An entry is readable until its expiry time.
Live(c, key, t) == key \in DOMAIN c /\ DateCompare(t, c[key].expires) < 0

\* redisClient.get(key): the stored text, or None (null) when absent.
CacheGet(key) == IF Live(cache, key, now) THEN cache[key].text ELSE None

\* The expiry taken in milliseconds (a set with PX for EX).
CacheSetExMillis(key, seconds, text, by, fn) ==
  [k \in (DOMAIN cache) \cup {key} |->
     IF k = key
     THEN [text    |-> text,
           at      |-> now,
           expires |-> MakeDate(now.day, now.ms + seconds),
           by      |-> by,
           fn      |-> fn]
     ELSE cache[k]]

\* redisClient.setEx(key, seconds, text): the store afterwards.  at, by and
\* fn record when, by which request and by which function the entry was
\* written.
CacheSetEx(key, seconds, text, by, fn) ==
  [k \in (DOMAIN cache) \cup {key} |->
     IF k = key
     THEN [text    |-> text,
           at      |-> now,
           expires |-> MakeDate(now.day, now.ms + seconds * MsPerSec),
           by      |-> by,
           fn      |-> fn]
     ELSE cache[k]]

\* The client sends its commands over one connection and the store replies
\* in the order sent: the reply (or rejection) due next is the one to the
\* command fn of request r sent.
NextReply(r, fn) == queue # <<>> /\ Head(queue) = <<r, fn>>

\* The store with the entries expired at time t removed.
Expire(c, t) == [k \in {x \in DOMAIN c : Live(c, x, t)} |-> c[k]]

(***************************************************************************)
(* Errors and responses                                                     *)
(***************************************************************************)
\* new Error(`User "${username}" not found`)
NotFoundError(username) ==
  [kind |-> "notfound", message |-> <<"User \"">> \o username \o <<"\" not found">>]
\* The rejection of axios.post.
UpstreamError == [kind |-> "upstream", message |-> <<"Request failed">>]
\* The rejection of a redis command.
CacheError == [kind |-> "cache", message |-> <<"redis command failed">>]
\* The SyntaxError of JSON.parse.
SyntaxError == [kind |-> "syntax", message |-> <<"Unexpected token">>]

GenericMessage == <<"Error fetching full user data">>

\* The error's own message sent to the client: res.status(500).send(error.message).
ErrorResponseWithMessage(error) ==
  [status |-> 500, body |-> error.message, logged |-> error.message]

\* res.status(500).send('Error fetching full user data'), after console.error.
ErrorResponse(error) ==
  [status |-> 500, body |-> GenericMessage, logged |-> error.message]

\* res.json({...profileData, languageStats, calendar})
OkResponse(profileData, extraStats) ==
  [status |-> 200,
   body   |-> [profileData   |-> profileData,
               languageStats |-> extraStats.languageStats,
               calendar      |-> extraStats.calendar],
   logged |-> <<>>]

\* A handler that answers with whatever has settled (Promise.allSettled, with
\* the rejections dropped): success as soon as the profile is there.
HandlerResponseSettled(old, udr, exr, error) ==
  IF old # None THEN old
  ELSE IF udr.pc = "done" /\ exr.pc \in {"done", "failed"}
       THEN OkResponse(udr.value,
                       IF exr.pc = "done" THEN exr.value
                       ELSE [languageStats |-> <<>>, calendar |-> <<>>])
  ELSE IF error # None THEN ErrorResponse(error)
  ELSE None

\* A handler with a catch on each call: every rejection is answered, also
\* after a response has been sent.
HandlerResponseEachFailure(old, udr, exr, error) ==
  IF error # None THEN ErrorResponse(error)
  ELSE IF old # None THEN old
  ELSE IF udr.pc = "done" /\ exr.pc = "done"
       THEN OkResponse(udr.value, exr.value)
  ELSE None

\* A handler that answers only once both calls have settled
\* (Promise.allSettled, then the first rejection found is reported).
HandlerResponseWaits(old, udr, exr, error) ==
  IF old # None THEN old
  ELSE IF udr.pc = "failed" /\ exr.pc \in {"done", "failed"}
       THEN ErrorResponse(udr.error)
  ELSE IF udr.pc = "done" /\ exr.pc = "failed" THEN ErrorResponse(exr.error)
  ELSE IF udr.pc = "done" /\ exr.pc = "done"
       THEN OkResponse(udr.value, exr.value)
  ELSE None

\* The route handler's continuation of Promise.all([fetchUserData,
\* fetchExtraStats]) after a step that left the two calls as udr and exr and
\* in which one of them rejected with `error` (None if none did): the first
\* rejection is answered at once, success once both have returned, and a
\* request already answered is not answered again.
HandlerResponse(old, udr, exr, error) ==
  IF old # None THEN old
  ELSE IF error # None THEN ErrorResponse(error)
  ELSE IF udr.pc = "done" /\ exr.pc = "done"
       THEN OkResponse(udr.value, exr.value)
  ELSE None

(***************************************************************************)
(* fetchExtraStats: the upstream calls and the reshaping of their answers   *)
(***************************************************************************)
\* A join that rejects only when the language stats call rejects, a failed
\* calendar call counting as a response without data.
PromiseAllRejectsOnFirstOnly(responses) ==
  responses[1].kind = "error"

\* Promise.all over the upstream calls rejects when one of them rejects.
PromiseAllRejects(responses) ==
  \E i \in DOMAIN responses : responses[i].kind = "error"

\* One more post than the code makes (a calendar fetched for a third year).
ExtraStatsPostsFour == 3 + 1

\* The posts fetchExtraStats issues on a cache miss: languageStatsQuery and
\* calendarQuery for lastYear and for thisYear.
ExtraStatsPosts == 3

\* langRes.data?.data?.matchedUser?.languageProblemCount || [], mapped to
\* {language, problemsSolved}.
LanguageStats(langRes) ==
  IF langRes.kind = "data"
  THEN [i \in 1..Len(langRes.languageProblemCount) |->
          [language       |-> langRes.languageProblemCount[i].languageName,
           problemsSolved |-> langRes.languageProblemCount[i].problemsSolved]]
  ELSE <<>>

\* The calendar text without the `|| "{}"` default: JSON.parse is then given
\* undefined, which it rejects.
CalRawNoDefault(calRes) ==
  IF calRes.kind = "data" THEN calRes.submissionCalendar ELSE MalformedText

\* calRes.data?.data?.matchedUser?.userCalendar?.submissionCalendar || "{}"
CalRaw(calRes) ==
  IF calRes.kind = "data" THEN calRes.submissionCalendar ELSE EmptyCalendarText

\* A result object that also carries the time it was computed at.
ExtraStatsResultStamped(langRes, calRes1, calRes2, fromDate) ==
  [languageStats |-> LanguageStats(langRes),
   calendar      |-> CombinedCalendar(CalRaw(calRes1), CalRaw(calRes2), fromDate),
   fetchedAt     |-> now]

\* The result object of fetchExtraStats.
ExtraStatsResult(langRes, calRes1, calRes2, fromDate) ==
  [languageStats |-> LanguageStats(langRes),
   calendar      |-> CombinedCalendar(CalRaw(calRes1), CalRaw(calRes2), fromDate)]

(***************************************************************************)
(* Initial state                                                            *)
(***************************************************************************)
\* by and entryAt record, for a value read from the cache, the request that
\* wrote the entry and when.
IdleUd ==
  [pc |-> "idle", cacheKey |-> <<>>, value |-> None, error |-> None,
   hit |-> FALSE, posts |-> 0, readAt |-> None, wroteAt |-> None,
   by |-> 0, entryAt |-> None]

\* rejected records whether one of the three upstream calls rejected.
IdleEx ==
  [pc |-> "idle", toDate |-> None, fromDate |-> None, lastYear |-> 0,
   thisYear |-> 0, cacheKey |-> <<>>, value |-> None, error |-> None,
   hit |-> FALSE, posts |-> 0, readAt |-> None, by |-> 0, entryAt |-> None,
   rejected |-> FALSE]

CalOff == [pc |-> "off"]

Init ==
  /\ now = StartTime
  /\ tz \in TZOffsets
  /\ cache = <<>>
  /\ queue = <<>>
  /\ req = [r \in Reqs |-> None]
  /\ ud = [r \in Reqs |-> IdleUd]
  /\ ex = [r \in Reqs |-> IdleEx]
  /\ resp = [r \in Reqs |-> None]
  /\ cal = CalOff

(***************************************************************************)
(* The route handler and the two fetches, one action per resumption         *)
(***************************************************************************)
\* GET /user/:username arrives.  The handler calls fetchUserData and
\* fetchExtraStats; each runs to its first await, the cache read.
\* `after` records the requests whose fetchUserData had returned by then,
\* `during` the requests one of whose fetches was in flight then.
Arrive(r, username) ==
  /\ req[r] = None
  /\ \A q \in Reqs : q < r => req[q] # None
  /\ req' = [req EXCEPT ![r] =
               [username |-> username,
                after    |-> {q \in Reqs : ud[q].pc = "done"},
                during   |-> {q \in Reqs :
                                \/ ud[q].pc \in {"get", "post", "set"}
                                \/ ex[q].pc \in {"get", "post", "set"}}]]
  /\ ud' = [ud EXCEPT ![r] =
              [IdleUd EXCEPT !.pc = "get",
                             !.cacheKey = UserCacheKey(username)]]
  /\ ex' = [ex EXCEPT ![r] =
              LET toDate   == now
                  thisYear == GetFullYear(toDate, tz)
                  lastYear == thisYear - 1
              IN  [IdleEx EXCEPT
                     !.pc = "get",
                     !.toDate = toDate,
                     !.fromDate = RollingFromDate(toDate, tz),
                     !.thisYear = thisYear,
                     !.lastYear = lastYear,
                     !.cacheKey = RollingCacheKey(username, lastYear, thisYear)]]
  /\ queue' = queue \o << <<r, "fetchUserData">>, <<r, "fetchExtraStats">> >>
  /\ UNCHANGED <<now, tz, cache, resp, cal>>

\* fetchUserData resumes from `await redisClient.get(cacheKey)`.
UdGet(r) ==
  /\ ud[r].pc = "get"
  /\ NextReply(r, "fetchUserData")
  /\ queue' = Tail(queue)
  /\ \E fails \in BOOLEAN :
       LET cached == CacheGet(ud[r].cacheKey)
           udr == IF fails
                  THEN [ud[r] EXCEPT !.pc = "failed", !.error = CacheError,
                                     !.readAt = now]
                  ELSE IF cached # None
                  THEN [ud[r] EXCEPT !.pc = "done", !.value = JSONParse(cached),
                                     !.hit = TRUE, !.readAt = now,
                                     !.by = cache[ud[r].cacheKey].by,
                                     !.entryAt = cache[ud[r].cacheKey].at]
                  ELSE [ud[r] EXCEPT !.pc = "post", !.posts = @ + 1,
                                     !.readAt = now]
       IN  /\ ud' = [ud EXCEPT ![r] = udr]
           /\ resp' = [resp EXCEPT ![r] =
                         HandlerResponse(@, udr, ex[r], udr.error)]
  /\ UNCHANGED <<now, tz, cache, req, ex, cal>>

\* fetchUserData resumes from `await axios.post(..., baseQuery ...)`.
UdPost(r) ==
  /\ ud[r].pc = "post"
  /\ \E response \in BaseResponses(req[r].username) :
       LET udr == IF response.kind = "error"
                  THEN [ud[r] EXCEPT !.pc = "failed", !.error = UpstreamError]
                  ELSE IF response.kind = "nodata"
                          \/ response.data.matchedUser = None
                  THEN [ud[r] EXCEPT !.pc = "failed",
                                     !.error = NotFoundError(req[r].username)]
                  ELSE [ud[r] EXCEPT !.pc = "set", !.value = response.data]
       IN  /\ ud' = [ud EXCEPT ![r] = udr]
           /\ queue' = IF udr.pc = "set"
                       THEN Append(queue, <<r, "fetchUserData">>)
                       ELSE queue
           /\ resp' = [resp EXCEPT ![r] =
                         HandlerResponse(@, udr, ex[r], udr.error)]
  /\ UNCHANGED <<now, tz, cache, req, ex, cal>>

\* fetchUserData resumes from `await redisClient.setEx(cacheKey, 3600, ...)`.
UdSet(r) ==
  /\ ud[r].pc = "set"
  /\ NextReply(r, "fetchUserData")
  /\ queue' = Tail(queue)
  /\ \E fails \in BOOLEAN :
       LET udr == IF fails
                  THEN [ud[r] EXCEPT !.pc = "failed", !.error = CacheError]
                  ELSE [ud[r] EXCEPT !.pc = "done", !.wroteAt = now]
       IN  /\ ud' = [ud EXCEPT ![r] = udr]
           /\ cache' = IF fails THEN cache
                       ELSE CacheSetEx(ud[r].cacheKey, TTL,
                                       JSONStringify(ud[r].value), r,
                                       "fetchUserData")
           /\ resp' = [resp EXCEPT ![r] =
                         HandlerResponse(@, udr, ex[r], udr.error)]
  /\ UNCHANGED <<now, tz, req, ex, cal>>

\* fetchExtraStats resumes from `await redisClient.get(cacheKey)`; on a miss
\* it issues the three upstream calls.
ExGet(r) ==
  /\ ex[r].pc = "get"
  /\ NextReply(r, "fetchExtraStats")
  /\ queue' = Tail(queue)
  /\ \E fails \in BOOLEAN :
       LET cached == CacheGet(ex[r].cacheKey)
           exr == IF fails
                  THEN [ex[r] EXCEPT !.pc = "failed", !.error = CacheError]
                  ELSE IF cached # None
                  THEN [ex[r] EXCEPT !.pc = "done", !.value = JSONParse(cached),
                                     !.hit = TRUE, !.readAt = now,
                                     !.by = cache[ex[r].cacheKey].by,
                                     !.entryAt = cache[ex[r].cacheKey].at]
                  ELSE [ex[r] EXCEPT !.pc = "post", !.posts = @ + ExtraStatsPosts]
       IN  /\ ex' = [ex EXCEPT ![r] = exr]
           /\ resp' = [resp EXCEPT ![r] =
                         HandlerResponse(@, ud[r], exr, exr.error)]
  /\ UNCHANGED <<now, tz, cache, req, ud, cal>>

\* fetchExtraStats resumes from `await Promise.all([...three posts...])`:
\* with the first rejection, or with the three responses, which it reshapes
\* up to the cache write.
ExPost(r) ==
  /\ ex[r].pc = "post"
  /\ \E langRes \in LanguageResponses(req[r].username),
        calRes1 \in CalendarResponses(req[r].username, ex[r].lastYear),
        calRes2 \in CalendarResponses(req[r].username, ex[r].thisYear) :
       LET responses == <<langRes, calRes1, calRes2>>
           rejected == "error" \in {langRes.kind, calRes1.kind, calRes2.kind}
           exr ==
             IF PromiseAllRejects(responses)
             THEN [ex[r] EXCEPT !.pc = "failed", !.error = UpstreamError,
                                !.rejected = rejected]
             ELSE IF JSONParseThrows(CalRaw(calRes1))
                     \/ JSONParseThrows(CalRaw(calRes2))
             THEN [ex[r] EXCEPT !.pc = "failed", !.error = SyntaxError,
                                !.rejected = rejected]
             ELSE [ex[r] EXCEPT
                     !.pc = "set",
                     !.by = r,
                     !.rejected = rejected,
                     !.value = ExtraStatsResult(langRes, calRes1, calRes2,
                                                ex[r].fromDate)]
       IN  /\ ex' = [ex EXCEPT ![r] = exr]
           /\ queue' = IF exr.pc = "set"
                       THEN Append(queue, <<r, "fetchExtraStats">>)
                       ELSE queue
           /\ resp' = [resp EXCEPT ![r] =
                         HandlerResponse(@, ud[r], exr, exr.error)]
  /\ UNCHANGED <<now, tz, cache, req, ud, cal>>

\* fetchExtraStats resumes from `await redisClient.setEx(cacheKey, 3600, ...)`.
ExSet(r) ==
  /\ ex[r].pc = "set"
  /\ NextReply(r, "fetchExtraStats")
  /\ queue' = Tail(queue)
  /\ \E fails \in BOOLEAN :
       LET exr == IF fails
                  THEN [ex[r] EXCEPT !.pc = "failed", !.error = CacheError]
                  ELSE [ex[r] EXCEPT !.pc = "done"]
       IN  /\ ex' = [ex EXCEPT ![r] = exr]
           /\ cache' = IF fails THEN cache
                       ELSE CacheSetEx(ex[r].cacheKey, TTL,
                                       JSONStringify(ex[r].value), r,
                                       "fetchExtraStats")
           /\ resp' = [resp EXCEPT ![r] =
                         HandlerResponse(@, ud[r], exr, exr.error)]
  /\ UNCHANGED <<now, tz, req, ud, cal>>

\* Time passes; the store drops the entries that have expired.
Tick ==
  /\ \E t \in Times :
       /\ DateCompare(now, t) < 0
       /\ now' = t
       /\ cache' = Expire(cache, t)
  /\ UNCHANGED <<tz, queue, req, ud, ex, resp, cal>>

Next ==
  \/ \E r \in Reqs, username \in Users : Arrive(r, username)
  \/ \E r \in Reqs : UdGet(r)
  \/ \E r \in Reqs : UdPost(r)
  \/ \E r \in Reqs : UdSet(r)
  \/ \E r \in Reqs : ExGet(r)
  \/ \E r \in Reqs : ExPost(r)
  \/ \E r \in Reqs : ExSet(r)
  \/ Tick

Spec == Init /\ [][Next]_vars

(***************************************************************************)
(* The normalizer and the rolling window on their own: the inputs are       *)
(* drawn in the initial state and the actions apply the code to them.       *)
(***************************************************************************)
\* Time zones tried, in minutes east of UTC.
CalTZOffsets == {-300, 0, 330}

\* Values of `new Date()`: 2024-06-15T00:00:00.000Z, 2024-06-15T12:00Z,
\* 2024-02-29T12:00Z, 2024-01-31T23:59:59.999Z and 2024-06-30T20:00Z.
CalTimes ==
  { [day |-> DaysFromCivil(2024, 6, 15), ms |-> 0],
    [day |-> DaysFromCivil(2024, 6, 15), ms |-> 43200000],
    [day |-> DaysFromCivil(2024, 2, 29), ms |-> 43200000],
    [day |-> DaysFromCivil(2024, 1, 31), ms |-> 86399999],
    [day |-> DaysFromCivil(2024, 6, 30), ms |-> 72000000] }

\* The UTC days the calendar keys lie on.
CalDates ==
  { [y |-> 2023, m |-> 2, d |-> 15], [y |-> 2023, m |-> 5, d |-> 31],
    [y |-> 2023, m |-> 6, d |-> 1],  [y |-> 2023, m |-> 6, d |-> 2],
    [y |-> 2024, m |-> 1, d |-> 1] }

\* Midnight UTC of a date, in unix seconds.
Midnight(date) == DaysFromCivil(date.y, date.m, date.d) * SecPerDay

\* Calendar keys: midnight UTC of every such day, and noon of 2023-06-01.
CalTimestamps ==
  { Midnight(date) : date \in CalDates }
    \cup { Midnight([y |-> 2023, m |-> 6, d |-> 1]) + 43200 }

CalCounts == {1, 2}

\* The payloads: every JSON object of at most n such keys, and text that
\* does not parse.
CalTexts(n) ==
  { [kind |-> "json", map |-> f] :
      f \in UNION { [S -> CalCounts] :
                      S \in { T \in SUBSET CalTimestamps :
                                Cardinality(T) <= n } } }
    \cup { MalformedText }

InitCal ==
  /\ now = StartTime
  /\ tz \in CalTZOffsets
  /\ cache = <<>>
  /\ queue = <<>>
  /\ req = [r \in Reqs |-> None]
  /\ ud = [r \in Reqs |-> IdleUd]
  /\ ex = [r \in Reqs |-> IdleEx]
  /\ resp = [r \in Reqs |-> None]
  /\ \E toDate \in CalTimes, calRaw1 \in CalTexts(MaxCalLen),
        calRaw2 \in CalTexts(MaxCalLen - 1) :
       cal = [pc |-> "start", toDate |-> toDate, calRaw1 |-> calRaw1,
              calRaw2 |-> calRaw2, fromDate |-> None, parsed1 |-> <<>>,
              parsed2 |-> <<>>, calendar |-> <<>>]

\* fetchExtraStats computes fromDate from toDate.
CalWindow ==
  /\ cal.pc = "start"
  /\ cal' = [cal EXCEPT !.pc = "window",
                        !.fromDate = RollingFromDate(cal.toDate, tz)]
  /\ UNCHANGED <<now, tz, cache, queue, req, ud, ex, resp>>

\* fetchExtraStats normalizes the two payloads and concatenates the results;
\* a payload that does not parse makes it throw.
CalNormalize ==
  /\ cal.pc = "window"
  /\ cal' = IF JSONParseThrows(cal.calRaw1) \/ JSONParseThrows(cal.calRaw2)
            THEN [cal EXCEPT !.pc = "failed"]
            ELSE [cal EXCEPT
                    !.pc = "done",
                    !.parsed1 = parseAndFilterCalendar(cal.calRaw1, cal.fromDate),
                    !.parsed2 = parseAndFilterCalendar(cal.calRaw2, cal.fromDate),
                    !.calendar = CombinedCalendar(cal.calRaw1, cal.calRaw2,
                                                  cal.fromDate)]
  /\ UNCHANGED <<now, tz, cache, queue, req, ud, ex, resp>>

NextCal == CalWindow \/ CalNormalize

SpecCal == InitCal /\ [][NextCal]_vars

(***************************************************************************)
(* Properties of the normalizer and the rolling window (under SpecCal)      *)
(***************************************************************************)
\* ISO dates compare as these numbers do.
DateKey(date) == date.y * 10000 + date.m * 100 + date.d

\* The UTC calendar date a calendar key lies on.
UTCDateOf(timestamp) ==
  CHOOSE date \in CalDates :
    Midnight(date) <= timestamp /\ timestamp < Midnight(date) + SecPerDay

\* The first day of today's month in the previous year, today being the
\* local date of toDate.
CutoffDate(toDate, zone) ==
  LET today == CivilFromDays(LocalTime(toDate, zone).day)
  IN  [y |-> today.y - 1, m |-> today.m, d |-> 1]

SortedByDate(entries) ==
  \A i, j \in 1..Len(entries) :
    i < j => DateKey(entries[i].date) <= DateKey(entries[j].date)

NoDuplicateDates(entries) ==
  \A i, j \in 1..Len(entries) : i # j => entries[i].date # entries[j].date

HasDate(entries, date) == \E i \in 1..Len(entries) : entries[i].date = date

DistinctDays(text) ==
  \A t1, t2 \in DOMAIN text.map : t1 # t2 => UTCDateOf(t1) # UTCDateOf(t2)

\* C5, as claimed: whatever the time of day of the request, every upstream
\* entry dated before the cutoff date is left out of the returned calendar and
\* an entry dated exactly on the cutoff date is in it.
C5_CutoffDateIncluded ==
  cal.pc = "done" =>
    \A text \in {cal.calRaw1, cal.calRaw2} : \A t \in DOMAIN text.map :
      /\ DateKey(UTCDateOf(t)) < DateKey(CutoffDate(cal.toDate, tz))
           => ~HasDate(cal.calendar, UTCDateOf(t))
      /\ UTCDateOf(t) = CutoffDate(cal.toDate, tz)
           => HasDate(cal.calendar, UTCDateOf(t))

\* C6, as claimed: for every date 'today', month ends and 29 February
\* included, the cutoff computed by fetchExtraStats falls on the first day of
\* today's month in the previous year.
C6_CutoffIsFirstOfMonthLastYear ==
  cal.pc \in {"window", "done"} =>
    CivilFromDays(LocalTime(cal.fromDate, tz).day) = CutoffDate(cal.toDate, tz)

\* C8, as claimed: the concatenation of the normalized lastYear response and
\* the normalized thisYear response is sorted ascending by date, for every
\* pair of responses.
C8_ConcatenationSorted ==
  cal.pc = "done" => SortedByDate(cal.calendar)

\* C8, amended: the concatenation is sorted ascending by date whenever no
\* entry of the lastYear response is dated after an entry of the thisYear
\* response.
C8_ConcatenationSortedWhenYearsOrdered ==
  (/\ cal.pc = "done"
   /\ \A t1 \in DOMAIN cal.calRaw1.map, t2 \in DOMAIN cal.calRaw2.map :
        DateKey(UTCDateOf(t1)) <= DateKey(UTCDateOf(t2)))
    => SortedByDate(cal.calendar)

\* C8 witness: both responses contribute entries, in order.
C8_Witness ==
  /\ cal.pc = "done"
  /\ Len(cal.parsed1) >= 1
  /\ Len(cal.parsed2) >= 1
  /\ \A t1 \in DOMAIN cal.calRaw1.map, t2 \in DOMAIN cal.calRaw2.map :
       DateKey(UTCDateOf(t1)) < DateKey(UTCDateOf(t2))

\* C9, as claimed: for every input map the normalizer's output is sorted
\* ascending by date and holds no two entries with the same date.
C9_SortedNoDuplicates ==
  cal.pc = "done" =>
    \A out \in {cal.parsed1, cal.parsed2} :
      SortedByDate(out) /\ NoDuplicateDates(out)

\* C9, amended: the normalizer's output is sorted ascending by date, and it
\* holds no two entries with the same date when no two keys of the input map
\* lie on the same UTC day.
C9_SortedNoDuplicatesForDistinctDays ==
  cal.pc = "done" =>
    /\ SortedByDate(cal.parsed1)
    /\ SortedByDate(cal.parsed2)
    /\ DistinctDays(cal.calRaw1) => NoDuplicateDates(cal.parsed1)
    /\ DistinctDays(cal.calRaw2) => NoDuplicateDates(cal.parsed2)

\* C9 witness: an input of two keys on different days, both kept.
C9_Witness ==
  /\ cal.pc = "done"
  /\ DistinctDays(cal.calRaw1)
  /\ Len(cal.parsed1) = 2
  /\ cal.parsed1[1].date # cal.parsed1[2].date

\* The one entry {t: n} should normalize to.
ExpectedEntry(text) ==
  LET t == CHOOSE x \in DOMAIN text.map : TRUE
  IN  [date |-> UTCDateOf(t), count |-> text.map[t]]

\* C10, as claimed: the one-entry map {t: n} normalizes to exactly one entry,
\* with the UTC calendar date of t and the count n.
C10_SingleEntry ==
  (cal.pc = "done" /\ Cardinality(DOMAIN cal.calRaw1.map) = 1) =>
    cal.parsed1 = <<ExpectedEntry(cal.calRaw1)>>

\* C10, amended: the one-entry map {t: n} normalizes to exactly one entry,
\* with the UTC calendar date of t and the count n, when midnight UTC of that
\* date is not before fromDate, and to no entry otherwise.
C10_SingleEntryInWindow ==
  (cal.pc = "done" /\ Cardinality(DOMAIN cal.calRaw1.map) = 1) =>
    LET e == ExpectedEntry(cal.calRaw1)
        midnight == [day |-> Midnight(e.date) \div SecPerDay, ms |-> 0]
    IN  cal.parsed1 = IF DateCompare(midnight, cal.fromDate) >= 0
                      THEN <<e>> ELSE <<>>

\* C10 witness: a one-entry map whose key is not a midnight, kept.
C10_Witness ==
  /\ cal.pc = "done"
  /\ Cardinality(DOMAIN cal.calRaw1.map) = 1
  /\ \A t \in DOMAIN cal.calRaw1.map : t % SecPerDay # 0
  /\ Len(cal.parsed1) = 1

(***************************************************************************)
(* Properties of the endpoint (under Spec)                                  *)
(***************************************************************************)
Arrived(r) == req[r] # None
Answered(r) == resp[r] # None

\* The text `piece` occurs in the text `message`.
References(message, piece) ==
  \E i \in 1..Len(message) : \E j \in i..Len(message) :
    SubSeq(message, i, j) = piece

\* The instant at which an entry written at time t with a TTL expires.
ExpiryOf(t) == MakeDate(t.day, t.ms + TTL * MsPerSec)

\* r2 is a request for the valid username of r1 that arrived after r1's
\* fetchUserData had fetched the profile from upstream and cached it, and whose
\* own cache read was made before that entry's TTL ran out.
SecondWithinTTL(r1, r2) ==
  /\ r1 # r2
  /\ Arrived(r1)
  /\ Arrived(r2)
  /\ req[r1].username = req[r2].username
  /\ req[r1].username \in ValidUsers
  /\ r1 \in req[r2].after
  /\ ud[r1].wroteAt # None
  /\ ud[r2].readAt # None
  /\ DateCompare(ud[r2].readAt, ExpiryOf(ud[r1].wroteAt)) < 0

\* C1: of two requests for a valid username handled one after the other
\* within the TTL, the first makes exactly one upstream call for the profile
\* bundle and the second none: its fetchUserData, when it returns, returns the
\* cached snapshot.
C1_OneUpstreamCallWithinTTL ==
  \A r1, r2 \in Reqs :
    SecondWithinTTL(r1, r2) =>
      /\ ud[r1].posts = 1
      /\ ud[r2].posts = 0
      /\ ud[r2].pc \in {"done", "failed"}
      /\ ud[r2].pc = "done" => ud[r2].hit /\ ud[r2].value = ud[r1].value

\* C1 witness: the second request read the cache at a later instant than the
\* first wrote it, and was served from it.
C1_Witness ==
  \E r1, r2 \in Reqs :
    /\ SecondWithinTTL(r1, r2)
    /\ DateCompare(ud[r1].wroteAt, ud[r2].readAt) < 0
    /\ ud[r2].pc = "done"
    /\ ud[r2].hit

\* C2, as claimed: a request for a username upstream reports as not found
\* (fetchUserData got the answer without a matchedUser, and nothing else
\* failed) is answered with a 500 whose message references that username.
C2_NotFoundMessageNamesUser ==
  \A r \in Reqs :
    (Arrived(r) /\ req[r].username \notin ValidUsers /\ Answered(r)
       /\ ud[r].error.kind = "notfound" /\ ex[r].pc # "failed") =>
      /\ resp[r].status = 500
      /\ References(resp[r].body, req[r].username)

\* C2, amended: a request for a username upstream reports as not found, whose
\* fetchUserData finds nothing under user:<username> in the cache, is answered
\* with a 500 whose body is the fixed text, which does not reference the
\* username; the username is referenced by the logged message when the
\* not-found error is the request's only failure.
C2_NotFoundGenericMessage ==
  \A r \in Reqs :
    (Arrived(r) /\ req[r].username \notin ValidUsers /\ Answered(r)
       /\ ~ud[r].hit) =>
      /\ resp[r].status = 500
      /\ resp[r].body = GenericMessage
      /\ ~References(resp[r].body, req[r].username)
      /\ (ud[r].error.kind = "notfound" /\ ex[r].pc # "failed")
           => References(resp[r].logged, req[r].username)

\* C2 witness: a not-found username answered after the not-found error.
C2_Witness ==
  \E r \in Reqs :
    /\ Arrived(r)
    /\ req[r].username \notin ValidUsers
    /\ Answered(r)
    /\ ud[r].error.kind = "notfound"
    /\ ex[r].pc # "failed"
    /\ resp[r].status = 500

\* C3, as claimed: no cache entry exists under the profile key
\* user:<username> of a username that upstream reports as not found.
C3_NoProfileEntryForUnknownUser ==
  \A username \in Users \ ValidUsers :
    ~Live(cache, UserCacheKey(username), now)

\* C4: a request one of whose fetches failed is answered 500 with the fixed
\* text, whatever the error; a 200 is sent only when both fetches returned,
\* and carries the data of both.
C4_FailureIsGeneric500 ==
  \A r \in Reqs :
    /\ (ud[r].pc = "failed" \/ ex[r].pc = "failed") =>
         /\ Answered(r)
         /\ resp[r].status = 500
         /\ resp[r].body = GenericMessage
    /\ (Answered(r) /\ resp[r].status = 200) =>
         /\ ud[r].pc = "done"
         /\ ex[r].pc = "done"
         /\ resp[r].body = [profileData   |-> ud[r].value,
                            languageStats |-> ex[r].value.languageStats,
                            calendar      |-> ex[r].value.calendar]

\* C4 witness: the profile was fetched, the extra stats failed on a malformed
\* calendar, and the answer is the 500.
C4_Witness ==
  \E r \in Reqs :
    /\ ud[r].pc = "done"
    /\ ex[r].pc = "failed"
    /\ ex[r].error.kind = "syntax"
    /\ resp[r].status = 500

\* C7, as claimed: every calendar entry of a 200 response, computed or
\* cached, is dated on or after the cutoff of the request being answered.
C7_CalendarWithinOwnWindow ==
  \A r \in Reqs :
    (Answered(r) /\ resp[r].status = 200) =>
      \A i \in 1..Len(resp[r].body.calendar) :
        DateKey(resp[r].body.calendar[i].date)
          >= DateKey(CutoffDate(ex[r].toDate, tz))

\* C7, amended: every calendar entry of a 200 response is dated on or after
\* the cutoff of the request whose fetchExtraStats computed the calendar: the
\* answered request itself, or, on a cache hit, the request that wrote the
\* entry.
C7_CalendarWithinComputedWindow ==
  \A r \in Reqs :
    (Answered(r) /\ resp[r].status = 200) =>
      \A i \in 1..Len(resp[r].body.calendar) :
        DateKey(resp[r].body.calendar[i].date)
          >= DateKey(CutoffDate(ex[ex[r].by].toDate, tz))

\* C7 witness: a 200 response whose calendar came from the cache and one
\* whose calendar was computed, both with entries.
C7_Witness ==
  \E r1, r2 \in Reqs :
    /\ Answered(r1) /\ resp[r1].status = 200
    /\ Answered(r2) /\ resp[r2].status = 200
    /\ ~ex[r1].hit
    /\ ex[r2].hit
    /\ ex[r2].by = r1
    /\ Len(resp[r1].body.calendar) >= 2
    /\ Len(resp[r2].body.calendar) >= 2

(***************************************************************************)
(* Cache provenance                                                         *)
(***************************************************************************)
\* C11 (the code disagrees): every value fetchUserData returns from a cache
\* hit was computed and written by an earlier fetchUserData call for the
\* same username, and every value fetchExtraStats returns from a cache hit
\* was written by an earlier fetchExtraStats call for the same username;
\* this is what the disjointness of the two key families would give.
C11_CacheHitsComeFromSameFetch ==
  \A r \in Reqs :
    /\ ud[r].hit =>
         /\ ud[r].by \in Reqs
         /\ req[ud[r].by].username = req[r].username
         /\ ud[ud[r].by].wroteAt # None
         /\ ud[r].value = ud[ud[r].by].value
    /\ ex[r].hit =>
         /\ ex[r].by \in Reqs
         /\ req[ex[r].by].username = req[r].username
         /\ ex[ex[r].by].pc = "done" /\ ~ex[ex[r].by].hit
         /\ ex[r].value = ex[ex[r].by].value

(***************************************************************************)
(* Upstream calls per request                                               *)
(***************************************************************************)
\* The posts to the upstream endpoint a request has caused.
PostsOf(r) == ud[r].posts + ex[r].posts

\* C12, as stated: a request causes at most two posts to the upstream
\* endpoint, whatever the cache holds.
C12_AtMostTwoPosts ==
  \A r \in Reqs : PostsOf(r) <= 2

\* C12, amended: a request causes at most four posts to the upstream
\* endpoint: one by fetchUserData when the profile key misses and none when
\* it hits, three by fetchExtraStats when the rolling key misses and none
\* when it hits.
C12_AtMostFourPosts ==
  \A r \in Reqs :
    /\ PostsOf(r) <= 4
    /\ ud[r].posts \in {0, 1}
    /\ ex[r].posts \in {0, 3}
    /\ ud[r].hit => ud[r].posts = 0
    /\ ex[r].hit => ex[r].posts = 0
    /\ ud[r].pc \in {"post", "set"} => ud[r].posts = 1
    /\ ex[r].pc \in {"post", "set"} => ex[r].posts = 3

\* C12 witness: a request that missed both keys and caused four posts, and a
\* request that hit both keys and caused none.
C12_Witness ==
  \E r1, r2 \in Reqs :
    /\ Answered(r1) /\ resp[r1].status = 200
    /\ PostsOf(r1) = 4
    /\ Answered(r2) /\ resp[r2].status = 200
    /\ ud[r2].hit /\ ex[r2].hit
    /\ PostsOf(r2) = 0

(***************************************************************************)
(* The response and the two fetches                                         *)
(***************************************************************************)
\* A fetch that has been called and has neither returned nor failed.
InFlight(call) == call.pc \in {"get", "post", "set"}

\* A fetch that has returned or failed.
Completed(call) == call.pc \in {"done", "failed"}

\* C13, as stated: a response, 200 or 500, is sent only after both
\* fetchUserData and fetchExtraStats have completed; none is sent while one
\* of them is in flight.
C13_ResponseAfterBothCompleted ==
  \A r \in Reqs :
    Answered(r) => Completed(ud[r]) /\ Completed(ex[r])

\* C13, amended: a 200 is sent only after both fetches have returned, and is
\* sent then; a 500 is sent only after one of them has failed, and is sent
\* as soon as the first one fails, whether or not the other has completed.
C13_ResponseAfterBothOrFirstFailure ==
  \A r \in Reqs :
    /\ (Answered(r) /\ resp[r].status = 200) =>
         ud[r].pc = "done" /\ ex[r].pc = "done"
    /\ (Answered(r) /\ resp[r].status = 500) =>
         ud[r].pc = "failed" \/ ex[r].pc = "failed"
    /\ (ud[r].pc = "failed" \/ ex[r].pc = "failed") =>
         Answered(r) /\ resp[r].status = 500
    /\ (ud[r].pc = "done" /\ ex[r].pc = "done") =>
         Answered(r) /\ resp[r].status = 200

\* C13 witness: a 500 sent while the other fetch is still in flight, and a
\* 200 sent after both fetches.
C13_Witness ==
  \E r1, r2 \in Reqs :
    /\ Answered(r1) /\ resp[r1].status = 500
    /\ ud[r1].pc = "failed"
    /\ InFlight(ex[r1])
    /\ Answered(r2) /\ resp[r2].status = 200
    /\ ud[r2].pc = "done" /\ ex[r2].pc = "done"

(***************************************************************************)
(* The join of the three upstream calls                                     *)
(***************************************************************************)
\* The request r's fetchExtraStats has an entry of its own in the store.
WroteRolling(r) ==
  \E key \in DOMAIN cache :
    cache[key].by = r /\ cache[key].fn = "fetchExtraStats"

\* C14: on a cache miss of fetchExtraStats, if one of the three upstream
\* calls fails then fetchExtraStats fails, keeps no result and writes no
\* cache entry; an entry is written only after all three calls succeeded.
C14_AllOrNothingJoin ==
  \A r \in Reqs :
    /\ ex[r].rejected =>
         /\ ex[r].pc = "failed"
         /\ ex[r].error = UpstreamError
         /\ ex[r].value = None
         /\ ~WroteRolling(r)
    /\ (ex[r].pc \in {"set", "done"} /\ ~ex[r].hit) =>
         ex[r].posts = ExtraStatsPosts /\ ~ex[r].rejected
    /\ WroteRolling(r) =>
         /\ ex[r].pc = "done" /\ ~ex[r].hit
         /\ ~ex[r].rejected

\* C14 witness: a fetchExtraStats that failed on a rejected upstream call
\* with nothing under its key, and one that wrote its entry after three
\* successful calls.
C14_Witness ==
  \E r1, r2 \in Reqs :
    /\ ex[r1].rejected
    /\ ex[r1].pc = "failed"
    /\ ex[r1].cacheKey \notin DOMAIN cache
    /\ ex[r2].pc = "done" /\ ~ex[r2].hit
    /\ WroteRolling(r2)

(***************************************************************************)
(* Concurrent requests for one username                                     *)
(***************************************************************************)
\* Two requests for the same username that were in flight together.
ConcurrentSameUser(r1, r2) ==
  /\ r1 # r2
  /\ Arrived(r1) /\ Arrived(r2)
  /\ req[r1].username = req[r2].username
  /\ r1 \in req[r2].during

\* The request's fetchUserData wrote the profile key.
WroteProfileKey(r) == ud[r].wroteAt # None

\* The request's fetchExtraStats wrote the rolling key.
WroteRollingKey(r) == ex[r].pc = "done" /\ ~ex[r].hit

NotAfter(t1, t2) == DateCompare(t1, t2) <= 0

\* C16, as stated (its freshness part): a response is never built from a
\* cached snapshot written more than one hour (the TTL) before the response.
C16_NoResponseFromSnapshotOlderThanTTL ==
  [][\A r \in Reqs :
       (resp[r] = None /\ resp'[r] # None /\ resp'[r].status = 200) =>
         /\ ud'[r].hit => NotAfter(now', ExpiryOf(ud'[r].entryAt))
         /\ ex'[r].hit => NotAfter(now', ExpiryOf(ex'[r].entryAt))]_vars

\* C16, amended: every cache entry expires 3600 seconds after it was
\* written; a cache read returns only entries written less than 3600 seconds
\* before the read; a fetch whose cache read finds no live entry goes to
\* upstream, and once it has returned it has rewritten the entry.
C16_ReadsWithinTTLAndRewriteAfterExpiry ==
  /\ \A key \in DOMAIN cache :
       cache[key].expires = ExpiryOf(cache[key].at)
  /\ \A r \in Reqs :
       /\ ud[r].hit =>
            /\ ud[r].posts = 0
            /\ DateCompare(ud[r].readAt, ExpiryOf(ud[r].entryAt)) < 0
       /\ ex[r].hit =>
            /\ ex[r].posts = 0
            /\ DateCompare(ex[r].readAt, ExpiryOf(ex[r].entryAt)) < 0
       /\ (ud[r].pc = "done" /\ ~ud[r].hit) =>
            /\ ud[r].posts = 1
            /\ ud[r].wroteAt # None
            /\ DateCompare(now, ExpiryOf(ud[r].wroteAt)) < 0 =>
                 /\ ud[r].cacheKey \in DOMAIN cache
                 /\ NotAfter(ExpiryOf(ud[r].wroteAt),
                             cache[ud[r].cacheKey].expires)
       /\ (ex[r].pc = "done" /\ ~ex[r].hit) =>
            ex[r].posts = ExtraStatsPosts

\* C16 witness: an entry written by one request had expired when the next
\* request for the key read the cache; that request went to upstream and
\* rewrote the entry.
C16_Witness ==
  \E r1, r2 \in Reqs :
    /\ r1 # r2
    /\ ud[r1].cacheKey = ud[r2].cacheKey
    /\ ud[r1].wroteAt # None
    /\ ud[r2].readAt # None
    /\ NotAfter(ExpiryOf(ud[r1].wroteAt), ud[r2].readAt)
    /\ ud[r2].posts = 1
    /\ ud[r2].wroteAt # None
    /\ cache[ud[r2].cacheKey].by = r2
    /\ ex[r2].pc = "done" /\ ~ex[r2].hit

(***************************************************************************)
(* What a call of fetchUserData changes in the store                        *)
(***************************************************************************)
\* The store holds the same entry, or none, under the key before and after
\* the step.
SameEntry(key) ==
  /\ key \in DOMAIN cache <=> key \in DOMAIN cache'
  /\ key \in DOMAIN cache => cache'[key] = cache[key]

\* C17: a step of fetchUserData(username) changes no key other than
\* `user:<username>`; it changes that key only in the one step that ends its
\* cache write, which it takes at most once; a step in which the call fails
\* and a step in which it returns a cache hit change nothing in the store.
C17_FetchUserDataFrame ==
  [][\A r \in Reqs :
       ud'[r] # ud[r] =>
         /\ \A key \in (DOMAIN cache \cup DOMAIN cache')
                         \ {<<"user", ":">> \o req'[r].username} :
              SameEntry(key)
         /\ cache' # cache =>
              /\ ud[r].pc = "set" /\ ud'[r].pc = "done"
              /\ ud[r].wroteAt = None /\ ud'[r].wroteAt # None
              /\ ~ud'[r].hit
         /\ ud'[r].pc = "failed" => cache' = cache
         /\ ud'[r].hit => cache' = cache]_vars

\* C17 witness: one call wrote the profile key, a later call hit the entry
\* and left its write time as it was; another key is in the store as well.
C17_Witness ==
  \E r1, r2 \in Reqs :
    /\ ud[r1].wroteAt # None
    /\ ud[r2].hit
    /\ ud[r2].by = r1
    /\ DateCompare(ud[r1].wroteAt, ud[r2].readAt) < 0
    /\ ud[r2].cacheKey \in DOMAIN cache
    /\ cache[ud[r2].cacheKey].at = ud[r1].wroteAt
    /\ ex[r1].cacheKey \in DOMAIN cache

(***************************************************************************)
(* fetchExtraStats for a username upstream does not know                    *)
(***************************************************************************)
\* The result fetchExtraStats builds from responses without a matchedUser.
EmptyExtraStats == [languageStats |-> <<>>, calendar |-> <<>>]

\* The request is for a username upstream reports as not found.
NotFoundRequest(r) == Arrived(r) /\ req[r].username \notin ValidUsers

\* C18: fetchExtraStats never fails with a not-found error; for a username
\* upstream does not know it fails only on a cache or upstream error, and
\* on a cache miss with three successful responses it returns the empty
\* result {languageStats: [], calendar: []} and writes it under the rolling
\* key with a TTL of 3600 seconds.
C18_ExtraStatsNeverNotFound ==
  \A r \in Reqs :
    /\ ex[r].error.kind # "notfound"
    /\ NotFoundRequest(r) =>
         /\ ex[r].pc = "failed" => ex[r].error \in {CacheError, UpstreamError}
         /\ (ex[r].pc \in {"set", "done"} /\ ~ex[r].hit) =>
              ex[r].value = EmptyExtraStats
         /\ \A key \in DOMAIN cache :
              (cache[key].by = r /\ cache[key].fn = "fetchExtraStats") =>
                /\ key = ex[r].cacheKey
                /\ ex[r].pc = "done"
                /\ JSONParse(cache[key].text) = EmptyExtraStats
                /\ cache[key].expires = ExpiryOf(cache[key].at)

\* C18 witness: two requests for a not-found username, both answered 500 on
\* the not-found error of fetchUserData; the fetchExtraStats of one has
\* written the empty result under the rolling key, that of the other still
\* has its cache write ahead of it, after the 500.
C18_Witness ==
  \E r1, r2 \in Reqs :
    /\ NotFoundRequest(r1) /\ NotFoundRequest(r2)
    /\ Answered(r1) /\ resp[r1].status = 500
    /\ Answered(r2) /\ resp[r2].status = 500
    /\ ud[r1].error.kind = "notfound" /\ ud[r2].error.kind = "notfound"
    /\ WroteRolling(r1)
    /\ ex[r2].pc = "set"
    /\ ex[r2].value = EmptyExtraStats

(***************************************************************************)
(* Every request is answered, once                                          *)
(***************************************************************************)
\* Every cache command and every upstream call of a request eventually
\* completes, with a result or an error: each pending resumption of a fetch
\* is eventually taken.
Completion ==
  \A r \in Reqs :
    /\ WF_vars(UdGet(r)) /\ WF_vars(UdPost(r)) /\ WF_vars(UdSet(r))
    /\ WF_vars(ExGet(r)) /\ WF_vars(ExPost(r)) /\ WF_vars(ExSet(r))

\* The server in one time zone, which plays no part in whether a request is
\* answered.
InitUTC == Init /\ tz = 0

FairSpec == InitUTC /\ [][Next]_vars /\ Completion

\* C19: when every cache operation and every upstream call eventually
\* completes, every request that arrived is eventually answered, with a 200
\* or a 500, and a response once sent is never followed by another one for
\* the same request.
C19_ExactlyOneResponse ==
  /\ \A r \in Reqs : Arrived(r) ~> Answered(r)
  /\ [](\A r \in Reqs : Answered(r) => resp[r].status \in {200, 500})
  /\ [][\A r \in Reqs : Answered(r) => resp'[r] = resp[r]]_vars

\* C19 witness: a request both of whose fetches failed and which has its one
\* response, the 500 of the first failure.
C19_Witness ==
  \E r \in Reqs :
    /\ ud[r].pc = "failed" /\ ex[r].pc = "failed"
    /\ ud[r].error # ex[r].error
    /\ Answered(r) /\ resp[r].status = 500
    /\ resp[r].logged \in {ud[r].error.message, ex[r].error.message}

====
